---- MODULE Spec2Model ----
(***************************************************************************)
(* Model of blog_publisher.py: the /upload-blog request handler and the    *)
(* string functions it is built from.  Text is a TLA+ string; a character  *)
(* is a string of length one.                                              *)
(***************************************************************************)
EXTENDS Integers, Sequences, FiniteSets, TLC

VARIABLES
    pc,                 \* position of the request handler upload_blog
    title,              \* request parameter
    blog_content,       \* request parameter
    cleaned_content,    \* locals of upload_blog
    formatted_content,
    checked_content,
    internal_links,
    final_content,
    tags,
    tag_ids,
    tag_pos,            \* fetch_tag_ids: index of the next tag to search
    calls,              \* external calls of the current request, in order
    response,           \* HTTP response of the current request
    cc_in,              \* sanitizer harness: argument of clean_content
    cc_out,             \* sanitizer harness: successive results
    il_content,         \* link enricher harness: arguments and result
    il_links,
    il_out

vars == <<pc, title, blog_content, cleaned_content, formatted_content,
          checked_content, internal_links, final_content, tags, tag_ids,
          tag_pos, calls, response, cc_in, cc_out, il_content, il_links, il_out>>

req_vars == <<pc, title, blog_content, cleaned_content, formatted_content,
              checked_content, internal_links, final_content, tags, tag_ids,
              tag_pos, calls, response>>

cc_vars == <<cc_in, cc_out>>

il_vars == <<il_content, il_links, il_out>>

-----------------------------------------------------------------------------
(* Python str primitives *)

CharAt(s, i) == SubSeq(s, i, i)

Whitespace == {" ", "\n", "\t"}

\* s[i:i+len(p)] == p
MatchesAt(s, p, i) ==
    /\ i + Len(p) - 1 <= Len(s)
    /\ SubSeq(s, i, i + Len(p) - 1) = p

\* the least member of a non-empty set of positions
Least(P) == CHOOSE k \in P : \A j \in P : k <= j

\* the scan of str.replace from position i: the text up to the leftmost
\* occurrence at or after i is kept, the occurrence is replaced, and the scan
\* goes on behind it
RECURSIVE ReplaceFrom(_, _, _, _)
ReplaceFrom(s, old, new, i) ==
    LET found == {k \in i..Len(s) : MatchesAt(s, old, k)} IN
    IF found = {} THEN SubSeq(s, i, Len(s))
    ELSE SubSeq(s, i, Least(found) - 1) \o new
             \o ReplaceFrom(s, old, new, Least(found) + Len(old))

\* s.replace(old, new) for a non-empty old: leftmost, non-overlapping, one pass
str_replace(s, old, new) == ReplaceFrom(s, old, new, 1)

RECURSIVE lstrip(_)
lstrip(s) ==
    IF Len(s) > 0 /\ CharAt(s, 1) \in Whitespace
    THEN lstrip(SubSeq(s, 2, Len(s)))
    ELSE s

RECURSIVE rstrip(_)
rstrip(s) ==
    IF Len(s) > 0 /\ CharAt(s, Len(s)) \in Whitespace
    THEN rstrip(SubSeq(s, 1, Len(s) - 1))
    ELSE s

\* s.strip()
strip(s) == rstrip(lstrip(s))

RECURSIVE Concat(_)
Concat(ss) == IF ss = <<>> THEN "" ELSE Head(ss) \o Concat(Tail(ss))

\* all sequences over S of length at most n
SeqsUpTo(S, n) == UNION {[1..k -> S] : k \in 0..n}

-----------------------------------------------------------------------------
(* clean_content *)

unwanted_phrases ==
    << "Here is the formatted blog post:",
       "Let me know if you need any further assistance!" >>

RECURSIVE RemovePhrases(_, _)
RemovePhrases(content, phrases) ==
    IF phrases = <<>> THEN content
    ELSE RemovePhrases(str_replace(content, Head(phrases), ""), Tail(phrases))

clean_content(content) == strip(RemovePhrases(content, unwanted_phrases))

-----------------------------------------------------------------------------
(* process_with_llama3 *)

\* Python's None / a returned text
None == [some |-> FALSE, val |-> ""]
Some(v) == [some |-> TRUE, val |-> v]

\* variant: only None counts as a failed rewrite
Truthy_not_none(o) == o.some

\* truthiness of an optional text: None and "" are falsy
Truthy(o) == o.some /\ o.val # ""

\* what ollama.chat answers: a mapping with or without the "message" field
OllamaResponse(has_message, content) ==
    [has_message |-> has_message, content |-> content]

process_with_llama3(resp) ==
    IF resp.has_message
    THEN Some(str_replace(resp.content, "</p>", "</p>\n"))
    ELSE None

-----------------------------------------------------------------------------
(* spell_check *)

Punctuation == {".", ",", "!", "?", ":", ";", "<", ">"}

\* word_tokenize: whitespace separates tokens, a punctuation mark is a token
RECURSIVE TokenizeFrom(_, _, _)
TokenizeFrom(s, i, cur) ==
    LET flush == IF cur = "" THEN <<>> ELSE <<cur>> IN
    IF i > Len(s) THEN flush
    ELSE IF CharAt(s, i) \in Whitespace
         THEN flush \o TokenizeFrom(s, i + 1, "")
    ELSE IF CharAt(s, i) \in Punctuation
         THEN flush \o <<CharAt(s, i)>> \o TokenizeFrom(s, i + 1, "")
    ELSE TokenizeFrom(s, i + 1, cur \o CharAt(s, i))

word_tokenize(text) == TokenizeFrom(text, 1, "")

RECURSIVE join(_, _)
join(sep, words) ==
    IF words = <<>> THEN ""
    ELSE IF Len(words) = 1 THEN Head(words)
    ELSE Head(words) \o sep \o join(sep, Tail(words))

spell_check(text) == join(" ", word_tokenize(text))

-----------------------------------------------------------------------------
(* get_internal_links *)

Post(t, l) == [title |-> t, link |-> l]

HasKey(d, k) == \E i \in 1..Len(d) : d[i].title = k

\* d[k] = v on an insertion-ordered dict: a known key keeps its position
DictSet(d, k, v) ==
    IF HasKey(d, k)
    THEN [i \in 1..Len(d) |-> IF d[i].title = k THEN Post(k, v) ELSE d[i]]
    ELSE Append(d, Post(k, v))

RECURSIVE DictOfPosts(_, _)
DictOfPosts(posts, d) ==
    IF posts = <<>> THEN d
    ELSE DictOfPosts(Tail(posts), DictSet(d, Head(posts).title, Head(posts).link))

\* variant: the body is read whatever the status
get_internal_links_any_status(status_code, posts) == DictOfPosts(posts, <<>>)

get_internal_links(status_code, posts) ==
    IF status_code = 200 THEN DictOfPosts(posts, <<>>) ELSE <<>>

-----------------------------------------------------------------------------
(* insert_internal_links *)

UpperLetters == "ABCDEFGHIJKLMNOPQRSTUVWXYZ"
LowerLetters == "abcdefghijklmnopqrstuvwxyz"
Digits == "0123456789"

CharsOf(s) == {CharAt(s, i) : i \in 1..Len(s)}

\* \w
WordChars == CharsOf(UpperLetters) \cup CharsOf(LowerLetters) \cup CharsOf(Digits) \cup {"_"}

\* str.lower() on one character
LowerOf ==
    [c \in CharsOf(UpperLetters) |->
        CharAt(LowerLetters, CHOOSE i \in 1..Len(UpperLetters) : CharAt(UpperLetters, i) = c)]

lower_char(c) == IF c \in DOMAIN LowerOf THEN LowerOf[c] ELSE c

RECURSIVE lower(_)
lower(s) == IF s = "" THEN "" ELSE lower_char(CharAt(s, 1)) \o lower(SubSeq(s, 2, Len(s)))

IsWordAt(s, k) == k >= 1 /\ k <= Len(s) /\ CharAt(s, k) \in WordChars

\* \b between positions k-1 and k
WordBoundary(s, k) == IsWordAt(s, k - 1) # IsWordAt(s, k)

\* \b<t>\b with re.IGNORECASE matches at position i (t is literal text)
RegexMatchAt(s, t, i) ==
    /\ i + Len(t) - 1 <= Len(s)
    /\ WordBoundary(s, i)
    /\ WordBoundary(s, i + Len(t))
    /\ lower(SubSeq(s, i, i + Len(t) - 1)) = lower(t)

\* the replacement text of re.sub: f'<a href="{url}">{title}</a>'
Anchor(url, t) == "<a href=\"" \o url \o "\">" \o t \o "</a>"

\* the scan of re.sub from position i: leftmost match first, matches do not
\* overlap
RECURSIVE SubFrom(_, _, _, _)
SubFrom(s, t, url, i) ==
    LET found == {k \in i..Len(s) : RegexMatchAt(s, t, k)} IN
    IF found = {} THEN SubSeq(s, i, Len(s))
    ELSE LET k == Least(found) IN
         SubSeq(s, i, k - 1) \o Anchor(url, t)
             \o SubFrom(s, t, url, k + Len(t))

\* re.sub(rf"\b{title}\b", f'<a href="{url}">{title}</a>', content, flags=re.IGNORECASE)
re_sub(t, url, content) == SubFrom(content, t, url, 1)

RECURSIVE insert_internal_links(_, _)
insert_internal_links(content, links) ==
    IF links = <<>> THEN content
    ELSE insert_internal_links(re_sub(Head(links).title, Head(links).link, content),
                               Tail(links))

-----------------------------------------------------------------------------
(* fetch_tag_ids *)

\* title.split(): maximal runs of non-whitespace characters
RECURSIVE SplitFrom(_, _, _)
SplitFrom(s, i, cur) ==
    LET flush == IF cur = "" THEN <<>> ELSE <<cur>> IN
    IF i > Len(s) THEN flush
    ELSE IF CharAt(s, i) \in Whitespace
         THEN flush \o SplitFrom(s, i + 1, "")
         ELSE SplitFrom(s, i + 1, cur \o CharAt(s, i))

split(s) == SplitFrom(s, 1, "")

\* variant: the last result is taken instead of the first
tag_ids_after_last(ids, status_code, tags_data) ==
    IF status_code = 200 /\ tags_data # <<>>
    THEN Append(ids, tags_data[Len(tags_data)])
    ELSE ids

\* one iteration of the loop of fetch_tag_ids: the ids after the answer
\* (status_code, tags_data) to the search for one tag; tags_data is the
\* list of the "id" fields of the results
tag_ids_after(ids, status_code, tags_data) ==
    IF status_code = 200 /\ tags_data # <<>>
    THEN Append(ids, tags_data[1])
    ELSE ids

-----------------------------------------------------------------------------
(* publish_to_wordpress *)

\* a JSON body: an object or a list with `size` members
Json(type, size) == [type |-> type, size |-> size]

NoResult == [some |-> FALSE, val |-> Json("null", 0)]
Result(j) == [some |-> TRUE, val |-> j]

meta_description_of(t) == "Learn more about " \o t \o " in this detailed blog post."

post_data(t, content, meta_description, ids) ==
    [title |-> t, content |-> content, status |-> "publish",
     meta |-> meta_description, tags |-> ids]

\* variant: any 2xx status counts as success
publish_to_wordpress_2xx(status_code, json) ==
    IF status_code \in {200, 201} THEN Result(json) ELSE NoResult

\* response.json() if response.status_code == 201 else None
publish_to_wordpress(status_code, json) ==
    IF status_code = 201 THEN Result(json) ELSE NoResult

\* `if result:` -- None, {} and [] are falsy
ResultTruthy(r) == r.some /\ r.val.size > 0

-----------------------------------------------------------------------------
(* HTTP responses of the endpoint *)

NoResponse == [status |-> 0, detail |-> "", post |-> Json("null", 0)]

HTTPException(status_code, detail) ==
    [status |-> status_code, detail |-> detail, post |-> Json("null", 0)]

Ok(result) ==
    [status |-> 200, detail |-> "Blog post published successfully", post |-> result]

-----------------------------------------------------------------------------
(* Bounds and the answers the collaborators may give *)

MaxTitleTokens == 3
MaxPosts == 1

TitleTokens == {"Go", "Rust", " "}
Titles == {Concat(ts) : ts \in SeqsUpTo(TitleTokens, MaxTitleTokens)}

BlogContents ==
    {"", "Read the Intro first", " Here is the formatted blog post:"}

ModelTexts == {"", "<p>Read the intro first.</p><p>Go</p>"}
OllamaResponses ==
    {OllamaResponse(FALSE, "")} \cup {OllamaResponse(TRUE, c) : c \in ModelTexts}

KnownPosts == {Post("Intro", "https://x/intro"), Post("Go", "https://x/go")}
PostLists == SeqsUpTo(KnownPosts, MaxPosts)
GetStatuses == {200, 404}

\* result lists of a tag search, as the ids of the results: none, one, several
TagLists == {<<>>, <<5>>, <<5, 7>>}

PostStatuses == {200, 201, 500}
JsonBodies == {Json("object", 0), Json("list", 0), Json("object", 1)}

-----------------------------------------------------------------------------
(* upload_blog *)

Call(api, req, status_code, body) ==
    [api |-> api, req |-> req, status |-> status_code, body |-> body]

\* variant: the empty check never fires
no_content_never(c) == FALSE

\* `if not blog_content`
no_content(c) == c = ""

\* variant: the page is created before the tags are resolved
step_after_publish_early(step) ==
    CASE step = "rewrite" -> "links"
      [] step = "links"   -> "publish"
      [] step = "publish" -> "tags"
      [] step = "tags"    -> "responded"

\* the order of the external calls of upload_blog
step_after(step) ==
    CASE step = "rewrite" -> "links"
      [] step = "links"   -> "tags"
      [] step = "tags"    -> "publish"
      [] step = "publish" -> "responded"

\* variant: the normalizer's text is the one enriched and published
content_to_link_checked(formatted, checked) == checked

\* which text goes through link enrichment to the publisher
content_to_link(formatted, checked) == formatted

\* the handler is entered: the empty check and the sanitizer
Receive ==
    /\ pc = "idle"
    /\ \E t \in Titles, c \in BlogContents :
         /\ title' = t
         /\ blog_content' = c
         /\ IF no_content(c)
            THEN /\ response' = HTTPException(400, "No content provided")
                 /\ cleaned_content' = ""
                 /\ pc' = "responded"
            ELSE /\ response' = NoResponse
                 /\ cleaned_content' = clean_content(c)
                 /\ pc' = "rewrite"
    /\ formatted_content' = None
    /\ checked_content' = ""
    /\ internal_links' = <<>>
    /\ final_content' = ""
    /\ tags' = <<>>
    /\ tag_ids' = <<>>
    /\ tag_pos' = 1
    /\ calls' = <<>>
    /\ UNCHANGED <<cc_vars, il_vars>>

\* formatted_content = process_with_llama3(cleaned_content), the failure
\* exit, and the normalizer
Rewrite ==
    /\ pc = "rewrite"
    /\ \E resp \in OllamaResponses :
         LET formatted == process_with_llama3(resp) IN
         /\ calls' = Append(calls, Call("rewrite", cleaned_content, 0, resp))
         /\ formatted_content' = formatted
         /\ IF ~Truthy(formatted)
            THEN /\ response' = HTTPException(500, "LLaMA 3 processing failed")
                 /\ checked_content' = checked_content
                 /\ pc' = "responded"
            ELSE /\ response' = response
                 /\ checked_content' = spell_check(formatted.val)
                 /\ pc' = step_after("rewrite")
    /\ UNCHANGED <<title, blog_content, cleaned_content, internal_links,
                   final_content, tags, tag_ids, tag_pos, cc_vars, il_vars>>

\* internal_links = get_internal_links(); final_content = insert_internal_links(...);
\* tags = title.split()
Links ==
    /\ pc = "links"
    /\ \E status_code \in GetStatuses, posts \in PostLists :
         LET links == get_internal_links(status_code, posts) IN
         /\ calls' = Append(calls, Call("links", "", status_code, posts))
         /\ internal_links' = links
         /\ final_content' =
              insert_internal_links(
                  content_to_link(formatted_content.val, checked_content), links)
    /\ tags' = split(title)
    /\ tag_ids' = <<>>
    /\ tag_pos' = 1
    /\ pc' = step_after("links")
    /\ UNCHANGED <<title, blog_content, cleaned_content, formatted_content,
                   checked_content, response, cc_vars, il_vars>>

\* one iteration of the loop of fetch_tag_ids
FetchTag ==
    /\ pc = "tags"
    /\ tag_pos <= Len(tags)
    /\ \E status_code \in GetStatuses, tags_data \in TagLists :
         /\ calls' = Append(calls, Call("tag", tags[tag_pos], status_code, tags_data))
         /\ tag_ids' = tag_ids_after(tag_ids, status_code, tags_data)
    /\ tag_pos' = tag_pos + 1
    /\ UNCHANGED <<pc, title, blog_content, cleaned_content, formatted_content,
                   checked_content, internal_links, final_content, tags,
                   response, cc_vars, il_vars>>

\* fetch_tag_ids returns
TagsDone ==
    /\ pc = "tags"
    /\ tag_pos > Len(tags)
    /\ pc' = step_after("tags")
    /\ UNCHANGED <<title, blog_content, cleaned_content, formatted_content,
                   checked_content, internal_links, final_content, tags,
                   tag_ids, tag_pos, calls, response, cc_vars, il_vars>>

\* result = publish_to_wordpress(...) and the response
Publish ==
    /\ pc = "publish"
    /\ \E status_code \in PostStatuses, json \in JsonBodies :
         LET result == publish_to_wordpress(status_code, json) IN
         /\ calls' = Append(calls,
                Call("publish",
                     post_data(title, final_content, meta_description_of(title), tag_ids),
                     status_code, json))
         /\ response' = IF ResultTruthy(result)
                        THEN Ok(result.val)
                        ELSE HTTPException(500, "Failed to publish post")
    /\ pc' = step_after("publish")
    /\ UNCHANGED <<title, blog_content, cleaned_content, formatted_content,
                   checked_content, internal_links, final_content, tags,
                   tag_ids, tag_pos, cc_vars, il_vars>>

\* the response is sent and the handler's locals are dropped: nothing is kept
\* from one request to the next
Return ==
    /\ pc = "responded"
    /\ pc' = "idle"
    /\ title' = ""
    /\ blog_content' = ""
    /\ cleaned_content' = ""
    /\ formatted_content' = None
    /\ checked_content' = ""
    /\ internal_links' = <<>>
    /\ final_content' = ""
    /\ tags' = <<>>
    /\ tag_ids' = <<>>
    /\ tag_pos' = 1
    /\ calls' = <<>>
    /\ response' = NoResponse
    /\ UNCHANGED <<cc_vars, il_vars>>

ReqIdle ==
    /\ pc = "idle"
    /\ title = ""
    /\ blog_content = ""
    /\ cleaned_content = ""
    /\ formatted_content = None
    /\ checked_content = ""
    /\ internal_links = <<>>
    /\ final_content = ""
    /\ tags = <<>>
    /\ tag_ids = <<>>
    /\ tag_pos = 1
    /\ calls = <<>>
    /\ response = NoResponse

CleanIdle == cc_in = "" /\ cc_out = <<>>

LinksIdle == il_content = "" /\ il_links = <<>> /\ il_out = None

Init == ReqIdle /\ CleanIdle /\ LinksIdle

Next == Receive \/ Rewrite \/ Links \/ FetchTag \/ TagsDone \/ Publish \/ Return

Spec == Init /\ [][Next]_vars

\* the server runs a handler to its end
FairSpec == Spec /\ WF_vars(Rewrite \/ Links \/ FetchTag \/ TagsDone \/ Publish)

-----------------------------------------------------------------------------
(* The sanitizer on its own: clean_content applied to a text, then to its   *)
(* own result                                                               *)

MaxPieces == 3

CleanPieces ==
    {" ", "x", unwanted_phrases[1], unwanted_phrases[2],
     "Here is the form", "atted blog post:"}

CleanInputs == {Concat(ps) : ps \in SeqsUpTo(CleanPieces, MaxPieces)}

CleanOnce ==
    /\ cc_out = <<>>
    /\ cc_out' = <<clean_content(cc_in)>>
    /\ UNCHANGED <<cc_in, req_vars, il_vars>>

CleanAgain ==
    /\ Len(cc_out) = 1
    /\ cc_out' = Append(cc_out, clean_content(cc_out[1]))
    /\ UNCHANGED <<cc_in, req_vars, il_vars>>

InitClean == ReqIdle /\ LinksIdle /\ cc_in \in CleanInputs /\ cc_out = <<>>

NextClean == CleanOnce \/ CleanAgain

SpecClean == InitClean /\ [][NextClean]_vars

-----------------------------------------------------------------------------
(* The link enricher on its own: insert_internal_links applied to a content *)
(* and a link index                                                         *)

MaxContentPieces == 3
MaxLinks == 2

ContentPieces == {"Read the ", "Intro", "intro", " first", " ", "s"}

Contents == {Concat(ps) : ps \in SeqsUpTo(ContentPieces, MaxContentPieces)}

LinkEntries ==
    {Post("Intro", "https://x/intro"), Post("first", "https://x/first"),
     Post("x", "https://x/")}

\* a dict has no two entries with the same key
LinkIndexes ==
    {d \in SeqsUpTo(LinkEntries, MaxLinks) :
        \A i, j \in 1..Len(d) : d[i].title = d[j].title => i = j}

InsertLinks ==
    /\ ~il_out.some
    /\ il_out' = Some(insert_internal_links(il_content, il_links))
    /\ UNCHANGED <<il_content, il_links, req_vars, cc_vars>>

InitLinks ==
    /\ ReqIdle /\ CleanIdle
    /\ il_content \in Contents
    /\ il_links \in LinkIndexes
    /\ il_out = None

NextLinks == InsertLinks

SpecLinks == InitLinks /\ [][NextLinks]_vars

-----------------------------------------------------------------------------
(* Properties of the endpoint *)

IsRewrite(c) == c.api = "rewrite"
IsLinks(c) == c.api = "links"
IsTag(c) == c.api = "tag"
IsPublish(c) == c.api = "publish"

Count(Test(_)) == Len(SelectSeq(calls, Test))

LastCall == calls[Len(calls)]

\* C1: a request whose blog_content is empty is answered 400 "No content
\* provided" at once, and no external call is made at any point of it
C1_EmptyContentRejected ==
    (pc # "idle" /\ blog_content = "") =>
        /\ pc = "responded"
        /\ response = HTTPException(400, "No content provided")
        /\ calls = <<>>

C1_Witness ==
    /\ pc = "responded"
    /\ blog_content = ""
    /\ title = "Go Rust"
    /\ response.status = 400

\* the rewrite answered, and the answer has no usable content
Unusable(c) == IsRewrite(c) /\ (~c.body.has_message \/ c.body.content = "")

\* C2: when the rewrite call yields no usable content (no "message" field, or
\* empty content) the request is answered 500 "LLaMA 3 processing failed" and
\* the rewrite call stays the last external call of the request
C2_RewriteFailureStops ==
    \A i \in 1..Len(calls) :
        Unusable(calls[i]) =>
            /\ blog_content # ""
            /\ i = Len(calls)
            /\ pc = "responded"
            /\ response = HTTPException(500, "LLaMA 3 processing failed")

C2_Witness ==
    /\ pc = "responded"
    /\ Len(calls) = 1
    /\ IsRewrite(calls[1])
    /\ calls[1].body.has_message
    /\ calls[1].body.content = ""
    /\ response.status = 500

\* C3: whenever the CMS answers the create-page call with a status other than
\* 201, the request is answered 500 "Failed to publish post", never 200
C3_PublishFailure ==
    \A i \in 1..Len(calls) :
        (IsPublish(calls[i]) /\ calls[i].status # 201) =>
            /\ pc = "responded"
            /\ response = HTTPException(500, "Failed to publish post")
            /\ response.status # 200

C3_Witness ==
    /\ pc = "responded"
    /\ Len(calls) > 0
    /\ IsPublish(LastCall)
    /\ LastCall.status = 200
    /\ LastCall.body = Json("object", 1)
    /\ internal_links # <<>>
    /\ tag_ids # <<>>
    /\ response.status = 500

\* C4: whenever the CMS answers the create-page call with status 201, whatever
\* JSON body it returns, the request is answered 200 with "post" equal to that
\* body; 500 "Failed to publish post" is answered only for a status other
\* than 201
C4_Status201IsSuccess ==
    \A i \in 1..Len(calls) :
        IsPublish(calls[i]) =>
            /\ calls[i].status = 201 => response = Ok(calls[i].body)
            /\ response = HTTPException(500, "Failed to publish post")
                   => calls[i].status # 201

-----------------------------------------------------------------------------
(* The claimed sanitizer and link enricher behaviour *)

\* C5: clean_content is idempotent: cleaning the result of clean_content
\* again gives the same text
C5_CleanIdempotent == Len(cc_out) = 2 => cc_out[2] = cc_out[1]

\* a match wrapped as it stands: the anchor text is the matched occurrence
WrapMatch(url, m) == "<a href=\"" \o url \o "\">" \o m \o "</a>"

RECURSIVE WrapFrom(_, _, _, _)
WrapFrom(s, t, url, i) ==
    LET found == {k \in i..Len(s) : RegexMatchAt(s, t, k)} IN
    IF found = {} THEN SubSeq(s, i, Len(s))
    ELSE LET k == Least(found) IN
         SubSeq(s, i, k - 1) \o WrapMatch(url, SubSeq(s, k, k + Len(t) - 1))
             \o WrapFrom(s, t, url, k + Len(t))

RECURSIVE WrapAll(_, _)
WrapAll(content, links) ==
    IF links = <<>> THEN content
    ELSE WrapAll(WrapFrom(content, Head(links).title, Head(links).link, 1),
                 Tail(links))

\* C8: link enrichment wraps each whole-word, case-insensitive occurrence of
\* each title, in index order, in an anchor to the title's URL whose text is
\* the matched occurrence itself, and changes nothing else
C8_LinksWrapMatches == il_out.some => il_out.val = WrapAll(il_content, il_links)

-----------------------------------------------------------------------------
(* Properties of the enrichment steps *)

TagCalls == SelectSeq(calls, IsTag)

\* a tag search that found something: 200 and a non-empty result list
Resolved(c) == IsTag(c) /\ c.status = 200 /\ c.body # <<>>

\* the first result's id of every search that found something, in call order
FirstIds ==
    LET found == SelectSeq(calls, Resolved) IN
    [i \in 1..Len(found) |-> found[i].body[1]]

RewriteOk == \E i \in 1..Len(calls) : IsRewrite(calls[i]) /\ ~Unusable(calls[i])

C7_TagResolution ==
    pc \in {"tags", "publish", "responded"} /\ RewriteOk =>
        /\ tags = split(title)
        /\ Len(TagCalls) = tag_pos - 1
        /\ \A i \in 1..Len(TagCalls) : TagCalls[i].req = tags[i]
        /\ tag_ids = FirstIds
        /\ Len(tag_ids) <= Len(tags)
        /\ pc \in {"publish", "responded"} => Len(TagCalls) = Len(tags)
        /\ pc = "responded" => LastCall.req.tags = FirstIds

C7_Witness ==
    /\ pc = "publish"
    /\ title = "Go Rust"
    /\ Len(TagCalls) = 2
    /\ TagCalls[1].req = "Go" /\ TagCalls[1].status = 200 /\ TagCalls[1].body = <<5, 7>>
    /\ TagCalls[2].req = "Rust" /\ TagCalls[2].status = 200 /\ TagCalls[2].body = <<>>
    /\ tag_ids = <<5>>

-----------------------------------------------------------------------------
(* The shape of a request *)

Rank(c) ==
    CASE IsRewrite(c) -> 1
      [] IsLinks(c)   -> 2
      [] IsTag(c)     -> 3
      [] IsPublish(c) -> 4

\* rewrite, then link fetch, then tag searches, then create-page; each of
\* them but the tag searches at most once; one tag search per word at most
CallsInOrder ==
    /\ \A i, j \in 1..Len(calls) :
          i < j => /\ Rank(calls[i]) <= Rank(calls[j])
                   /\ Rank(calls[i]) = Rank(calls[j]) => IsTag(calls[i])
    /\ \A i \in 1..Len(calls) : IsPublish(calls[i]) => i = Len(calls)
    /\ Count(IsTag) <= Len(split(title))

\* a response exists exactly when the handler has ended, and it is one of
\* the three of the endpoint
OneResponse ==
    /\ pc = "responded" <=> response # NoResponse
    /\ pc = "responded" => response.status \in {200, 400, 500}

\* a response, once made, is not replaced, and no call follows it
ResponseFinal ==
    pc = "responded" => (pc' = "idle" \/ UNCHANGED <<response, calls>>)

InFlight == pc \in {"rewrite", "links", "tags", "publish"}

\* C9: within a request the external calls come in the order rewrite, link
\* fetch, tag searches, create-page, without retries, the create-page call
\* being the last; and every request ends in exactly one response
C9_LinearPipeline ==
    /\ [](CallsInOrder /\ OneResponse)
    /\ [][ResponseFinal]_vars
    /\ (InFlight ~> pc = "responded")

C9_Witness ==
    /\ pc = "responded"
    /\ Len(calls) = 5
    /\ IsRewrite(calls[1]) /\ IsLinks(calls[2]) /\ IsTag(calls[3])
    /\ IsTag(calls[4]) /\ IsPublish(calls[5])
    /\ calls[5].status = 500
    /\ response.status = 500

\* C10: the content sent in the create-page call is the link enrichment, under
\* the fetched link index, of the model's text with a newline after every
\* closing paragraph tag; the normalizer's text is not what is sent
C10_NormalizerUnused ==
    \A i, j, k \in 1..Len(calls) :
        (IsRewrite(calls[i]) /\ IsLinks(calls[j]) /\ IsPublish(calls[k])) =>
            calls[k].req.content =
                insert_internal_links(
                    str_replace(calls[i].body.content, "</p>", "</p>\n"),
                    get_internal_links(calls[j].status, calls[j].body))

C10_Witness ==
    /\ pc = "responded"
    /\ Len(calls) > 1
    /\ IsPublish(LastCall)
    /\ checked_content # formatted_content.val
    /\ internal_links # <<>>
    /\ LastCall.req.content # formatted_content.val
    /\ LastCall.req.content # insert_internal_links(checked_content, internal_links)
    /\ LastCall.req.content =
           "<p>Read the <a href=\"https://x/intro\">Intro</a> first.</p>\n<p>Go</p>\n"

====
